---- MODULE Spec2Model ----
(***************************************************************************)
(* A model of semantic_router/route.py: the validator is_valid, the Route  *)
(* entity and its dynamic synthesis pipeline, and the RouteConfig          *)
(* collection with its file load/save and add/get/remove operations.       *)
(*                                                                         *)
(* Text is a sequence of one-character strings.  A Python value is a       *)
(* record [t, v]: t is the Python type and v a sequence (the characters    *)
(* of a str or of an int's decimal form, the elements of a list, the       *)
(* <<key, value>> pairs of a dict in insertion order, <<>> for None).      *)
(***************************************************************************)
EXTENDS Naturals, Sequences, FiniteSets, TLC

VARIABLES
    pc,            \* position of the synthesis attempt (Route.from_dynamic_route)
    trace,         \* the positions the attempt has been in, oldest first
    requests,      \* completion requests sent by the attempt
    output,        \* completion.choices[0].message.content
    route_config,  \* the text handed to is_valid
    valid,         \* what is_valid did: "unset", "True", "False" or "TypeError"
    result,        \* how the attempt ended: [kind, stage, err, route]
    schema,        \* the schema _get_schema made of the entity
    heap,          \* the list objects: identity -> sequence of Route
    routes,        \* RouteConfig instance -> identity of its self.routes list
    held,          \* instance -> routes added to it and not since removed from it
    files,         \* path -> file content
    saved,         \* path -> what to_file last wrote there completely
    last           \* the last RouteConfig call: its arguments, pre-state and outcome

vars == <<pc, trace, requests, output, route_config, valid, result, schema,
          heap, routes, held, files, saved, last>>

-----------------------------------------------------------------------------
(* Bounds *)

MaxItems == 2     \* elements of a list payload
MaxPieces == 4    \* pieces a completion text is cut from
MaxRoutes == 2    \* routes of a RouteConfig that is saved
MaxLen == 3       \* routes held by the one RouteConfig that is called
MaxShared == 2    \* routes a list holds when two RouteConfig are called

-----------------------------------------------------------------------------
(* Text *)

Str_name == <<"n", "a", "m", "e">>
Str_utterances == <<"u", "t", "t", "e", "r", "a", "n", "c", "e", "s">>
Str_description == <<"d", "e", "s", "c", "r", "i", "p", "t", "i", "o", "n">>
Str_null == <<"n", "u", "l", "l">>
Str_true == <<"t", "r", "u", "e">>
Str_false == <<"f", "a", "l", "s", "e">>
OpenTag == <<"<", "c", "o", "n", "f", "i", "g", ">">>
CloseTag == <<"<", "/", "c", "o", "n", "f", "i", "g", ">">>

Whitespace == {" ", "\n"}
Digits == {"0", "1", "2", "3", "4", "5", "6", "7", "8", "9"}

\* s[i .. i+Len(p)-1] = p
MatchAt(s, i, p) ==
    /\ i >= 1
    /\ i + Len(p) <= Len(s) + 1
    /\ \A k \in 1..Len(p) : s[i + k - 1] = p[k]

\* Python's `p in s` for two str
Contains(s, p) == \E i \in 1..(Len(s) + 1) : MatchAt(s, i, p)

RECURSIVE LStrip(_)
LStrip(s) == IF s # <<>> /\ Head(s) \in Whitespace THEN LStrip(Tail(s)) ELSE s

RECURSIVE RStrip(_)
RStrip(s) ==
    IF s # <<>> /\ s[Len(s)] \in Whitespace THEN RStrip(SubSeq(s, 1, Len(s) - 1)) ELSE s

\* str.strip()
Strip(s) == RStrip(LStrip(s))

RECURSIVE Concat(_)
Concat(ss) == IF ss = <<>> THEN <<>> ELSE Head(ss) \o Concat(Tail(ss))

-----------------------------------------------------------------------------
(* Python values *)

PyNone == [t |-> "None", v |-> <<>>]
PyInt(ds) == [t |-> "int", v |-> ds]
PyBool(cs) == [t |-> "bool", v |-> cs]
PyStr(cs) == [t |-> "str", v |-> cs]
PyList(xs) == [t |-> "list", v |-> xs]
PyDict(kvs) == [t |-> "dict", v |-> kvs]

Keys(d) == {d.v[i][1] : i \in 1..Len(d.v)}

\* d[k] for a key the dict holds
Lookup(d, k) == d.v[CHOOSE i \in 1..Len(d.v) : d.v[i][1] = k][2]

\* d[k] = x: a new key goes last, a held key keeps its place
SetItem(kvs, k, x) ==
    IF \E i \in 1..Len(kvs) : kvs[i][1] = k
    THEN [i \in 1..Len(kvs) |-> IF kvs[i][1] = k THEN <<k, x>> ELSE kvs[i]]
    ELSE Append(kvs, <<k, x>>)

-----------------------------------------------------------------------------
(* json.dumps with the default separators *)

RECURSIVE Dumps(_), DumpItems(_), DumpMembers(_)
DumpItems(xs) ==
    IF xs = <<>> THEN <<>>
    ELSE IF Len(xs) = 1 THEN Dumps(xs[1])
    ELSE Dumps(xs[1]) \o <<",", " ">> \o DumpItems(Tail(xs))

DumpMembers(kvs) ==
    IF kvs = <<>> THEN <<>>
    ELSE LET m == <<"\"">> \o kvs[1][1] \o <<"\"", ":", " ">> \o Dumps(kvs[1][2])
         IN IF Len(kvs) = 1 THEN m ELSE m \o <<",", " ">> \o DumpMembers(Tail(kvs))

Dumps(x) ==
    CASE x.t = "None" -> Str_null
      [] x.t = "int"  -> x.v
      [] x.t = "bool" -> x.v
      [] x.t = "str"  -> <<"\"">> \o x.v \o <<"\"">>
      [] x.t = "list" -> <<"[">> \o DumpItems(x.v) \o <<"]">>
      [] x.t = "dict" -> <<"{">> \o DumpMembers(x.v) \o <<"}">>

-----------------------------------------------------------------------------
(* json.loads: [ok, v, i], i the position after the value; ok = FALSE is   *)
(* json.JSONDecodeError.  The texts here hold no escapes, signs, fractions *)
(* or exponents.                                                           *)

NoParse == [ok |-> FALSE, v |-> PyNone, i |-> 0]
Parsed(x, i) == [ok |-> TRUE, v |-> x, i |-> i]

RECURSIVE SkipWs(_, _)
SkipWs(s, i) == IF i <= Len(s) /\ s[i] \in Whitespace THEN SkipWs(s, i + 1) ELSE i

RECURSIVE EndOfDigits(_, _)
EndOfDigits(s, i) == IF i <= Len(s) /\ s[i] \in Digits THEN EndOfDigits(s, i + 1) ELSE i

\* position of the closing quote of a string whose text starts at i, 0 if none
RECURSIVE ClosingQuote(_, _)
ClosingQuote(s, i) ==
    IF i > Len(s) THEN 0
    ELSE IF s[i] = "\"" THEN i
    ELSE IF s[i] = "\n" THEN 0
    ELSE ClosingQuote(s, i + 1)

ParseString(s, i) ==
    LET q == ClosingQuote(s, i + 1)
    IN IF q = 0 THEN NoParse ELSE Parsed(PyStr(SubSeq(s, i + 1, q - 1)), q + 1)

ParseNumber(s, i) ==
    LET e == EndOfDigits(s, i)
    IN IF s[i] = "0" /\ e > i + 1 THEN Parsed(PyInt(<<"0">>), i + 1)
       ELSE Parsed(PyInt(SubSeq(s, i, e - 1)), e)

RECURSIVE ParseValue(_, _), ParseItems(_, _, _), ParseMembers(_, _, _)

\* after "[" or ",": the next element, then "," or "]"
ParseItems(s, i, acc) ==
    LET x == ParseValue(s, i)
        j == SkipWs(s, x.i)
    IN IF ~x.ok \/ j > Len(s) THEN NoParse
       ELSE IF s[j] = "]" THEN Parsed(PyList(Append(acc, x.v)), j + 1)
       ELSE IF s[j] = "," THEN ParseItems(s, SkipWs(s, j + 1), Append(acc, x.v))
       ELSE NoParse

\* after "{" or ",": "key" : value, then "," or "}"
ParseMembers(s, i, acc) ==
    IF i > Len(s) \/ s[i] # "\"" THEN NoParse
    ELSE LET k == ParseString(s, i)
             c == SkipWs(s, k.i)
         IN IF ~k.ok \/ c > Len(s) \/ s[c] # ":" THEN NoParse
            ELSE LET x == ParseValue(s, SkipWs(s, c + 1))
                     j == SkipWs(s, x.i)
                     kvs == SetItem(acc, k.v.v, x.v)
                 IN IF ~x.ok \/ j > Len(s) THEN NoParse
                    ELSE IF s[j] = "}" THEN Parsed(PyDict(kvs), j + 1)
                    ELSE IF s[j] = "," THEN ParseMembers(s, SkipWs(s, j + 1), kvs)
                    ELSE NoParse

ParseValue(s, i) ==
    IF i > Len(s) THEN NoParse
    ELSE IF s[i] = "\"" THEN ParseString(s, i)
    ELSE IF s[i] = "{" THEN
        LET j == SkipWs(s, i + 1)
        IN IF j <= Len(s) /\ s[j] = "}" THEN Parsed(PyDict(<<>>), j + 1)
           ELSE ParseMembers(s, j, <<>>)
    ELSE IF s[i] = "[" THEN
        LET j == SkipWs(s, i + 1)
        IN IF j <= Len(s) /\ s[j] = "]" THEN Parsed(PyList(<<>>), j + 1)
           ELSE ParseItems(s, j, <<>>)
    ELSE IF MatchAt(s, i, Str_null) THEN Parsed(PyNone, i + 4)
    ELSE IF MatchAt(s, i, Str_true) THEN Parsed(PyBool(Str_true), i + 4)
    ELSE IF MatchAt(s, i, Str_false) THEN Parsed(PyBool(Str_false), i + 5)
    ELSE IF s[i] \in Digits THEN ParseNumber(s, i)
    ELSE NoParse

\* the whole text is one value between optional whitespace
Loads(s) ==
    LET x == ParseValue(s, SkipWs(s, 1))
    IN IF x.ok /\ SkipWs(s, x.i) = Len(s) + 1 THEN x ELSE NoParse

-----------------------------------------------------------------------------
(* is_valid *)

required_keys == <<Str_name, Str_utterances>>

\* `key in item`: defined for a dict (its keys), a list (its elements) and a
\* str (its substrings); any other operand raises TypeError
In(key, item) ==
    CASE item.t = "dict" -> key \in Keys(item)
      [] item.t = "list" -> \E i \in 1..Len(item.v) :
                                item.v[i].t = "str" /\ item.v[i].v = key
      [] item.t = "str"  -> Contains(item.v, key)

\* [key for key in required_keys if key not in item]
missing_keys(item) ==
    SelectSeq(required_keys, LAMBDA key : ~In(key, item))

\* one evaluation of the comprehension and the test on it
CheckItem(item) ==
    IF item.t \notin {"dict", "list", "str"} THEN "TypeError"
    ELSE IF missing_keys(item) # <<>> THEN "False"
    ELSE "True"

\* the for loop: the first item that is not complete decides
RECURSIVE CheckItems(_)
CheckItems(xs) ==
    IF xs = <<>> THEN "True"
    ELSE IF CheckItem(Head(xs)) # "True" THEN CheckItem(Head(xs))
    ELSE CheckItems(Tail(xs))

is_valid(text) ==
    LET output_json == Loads(text)
    IN IF ~output_json.ok THEN "False"
       ELSE IF output_json.v.t = "list" THEN CheckItems(output_json.v.v)
       ELSE CheckItem(output_json.v)

-----------------------------------------------------------------------------
(* Route *)

NoRoute == [name |-> <<>>, utterances |-> <<>>, description |-> PyNone]

IsStr(x) == x.t = "str"
IsStrList(x) == x.t = "list" /\ \A i \in 1..Len(x.v) : IsStr(x.v[i])

\* Route(**data): ** takes a mapping only, and pydantic validates the fields
\* (the values here are of types pydantic 1 and 2 treat alike)
Route(data) ==
    IF data.t # "dict" THEN [ok |-> FALSE, err |-> "TypeError", route |-> NoRoute]
    ELSE IF \/ Str_name \notin Keys(data)
            \/ ~IsStr(Lookup(data, Str_name))
            \/ Str_utterances \notin Keys(data)
            \/ ~IsStrList(Lookup(data, Str_utterances))
            \/ /\ Str_description \in Keys(data)
               /\ Lookup(data, Str_description).t \notin {"str", "None"}
    THEN [ok |-> FALSE, err |-> "ValidationError", route |-> NoRoute]
    ELSE [ok |-> TRUE, err |-> "",
          route |-> [name |-> Lookup(data, Str_name).v,
                     utterances |-> [i \in 1..Len(Lookup(data, Str_utterances).v) |->
                                        Lookup(data, Str_utterances).v[i].v],
                     description |-> IF Str_description \in Keys(data)
                                     THEN Lookup(data, Str_description)
                                     ELSE PyNone]]

from_dict(data) == Route(data)

\* the dict without the description, in place of all three fields
to_dict_without_description(r) ==
    PyDict(<< <<Str_name, PyStr(r.name)>>,
              <<Str_utterances,
                PyList([i \in 1..Len(r.utterances) |-> PyStr(r.utterances[i])])>> >>)

\* Route.to_dict: self.dict(), the fields in declaration order
to_dict(r) ==
    PyDict(<< <<Str_name, PyStr(r.name)>>,
              <<Str_utterances,
                PyList([i \in 1..Len(r.utterances) |-> PyStr(r.utterances[i])])>>,
              <<Str_description, r.description>> >>)

-----------------------------------------------------------------------------
(* Route._parse_route_config: re.search(r"<config>(.*?)</config>", re.DOTALL) *)

Min(S) == CHOOSE m \in S : \A k \in S : m <= k

Max(S) == CHOOSE m \in S : \A k \in S : m >= k

\* the greedy group (.*) in place of the lazy one: the farthest closing tag
GreedyClose(s, j) ==
    LET closes == {k \in j..Len(s) : MatchAt(s, k, CloseTag)}
    IN IF closes = {} THEN 0 ELSE Max(closes)

\* (.*?)</config> tried from position j: the lazy group grows a character at
\* a time, so the nearest closing tag ends it; 0 if there is none
LazyClose(s, j) ==
    LET closes == {k \in j..Len(s) : MatchAt(s, k, CloseTag)}
    IN IF closes = {} THEN 0 ELSE Min(closes)

\* re.search tries the start positions left to right and returns the first
\* match: [found, group]
Search(s) ==
    LET starts == {i \in 1..Len(s) :
                      MatchAt(s, i, OpenTag) /\ LazyClose(s, i + Len(OpenTag)) # 0}
        i == Min(starts)
    IN IF starts = {} THEN [found |-> FALSE, group |-> <<>>]
       ELSE [found |-> TRUE,
             group |-> SubSeq(s, i + Len(OpenTag), LazyClose(s, i + Len(OpenTag)) - 1)]

\* [ok, text]; ok = FALSE is ValueError("No <config></config> tags found ...")
parse_route_config(config) ==
    LET match == Search(config)
    IN IF match.found THEN [ok |-> TRUE, text |-> Strip(match.group)]
       ELSE [ok |-> FALSE, text |-> <<>>]

-----------------------------------------------------------------------------
(* The values and texts the operations are given *)

Str_a == <<"a">>
Str_b == <<"b">>
Str_d == <<"d">>
Str_x == <<"x">>
Str_y == <<"y">>
Str_5 == <<"5">>

Pair(k, x) == <<k, x>>

Dict_a == PyDict(<<Pair(Str_name, PyStr(Str_a)),
                   Pair(Str_utterances, PyList(<<PyStr(Str_x)>>))>>)
Dict_b == PyDict(<<Pair(Str_name, PyStr(Str_b)),
                   Pair(Str_utterances, PyList(<<>>)),
                   Pair(Str_description, PyStr(Str_d))>>)
Dict_a2 == PyDict(<<Pair(Str_name, PyStr(Str_a)),
                    Pair(Str_utterances, PyList(<<PyStr(Str_x), PyStr(Str_y)>>)),
                    Pair(Str_description, PyNone)>>)
Dict_no_name == PyDict(<<Pair(Str_utterances, PyList(<<>>))>>)
Dict_no_utterances == PyDict(<<Pair(Str_name, PyStr(Str_a))>>)
Dict_empty == PyDict(<<>>)
Dict_mistyped == PyDict(<<Pair(Str_name, PyNone), Pair(Str_utterances, PyInt(Str_5))>>)
Str_both == PyStr(Str_name \o <<" ">> \o Str_utterances)
List_both == PyList(<<PyStr(Str_name), PyStr(Str_utterances)>>)

\* what a list payload is made of, and what a payload that is no list can be
Items ==
    { Dict_a, Dict_b, Dict_a2, Dict_no_name, Dict_no_utterances, Dict_empty,
      Dict_mistyped, Str_both, PyStr(Str_a), List_both, PyInt(Str_5), PyNone }

\* the same for the payloads that lie in files
FileItems == { Dict_a, Dict_no_name, Dict_mistyped, Str_both, PyInt(Str_5) }

SeqsUpTo(S, n) == UNION {[1..k -> S] : k \in 0..n}

Payloads == Items \cup {PyList(xs) : xs \in SeqsUpTo(Items, MaxItems)}

FilePayloads == FileItems \cup {PyList(xs) : xs \in SeqsUpTo(FileItems, MaxItems)}

\* texts json.loads refuses
Unparseable == { <<>>, <<"{">>, Str_name, <<"[", "5", ",">>, <<"5", " ", "5">> }

Documents == {Dumps(x) : x \in Payloads} \cup Unparseable

\* a completion text is a document between the tags, or pieces in any order
Pieces == { OpenTag, CloseTag, <<" ">>, <<"\n">>, <<"<">>, Str_5 }

PieceTexts == {Concat(ps) : ps \in SeqsUpTo(Pieces, MaxPieces)}

Completions == {OpenTag \o d \o CloseTag : d \in Documents} \cup PieceTexts

\* a pydantic model instance or a callable, as _get_schema reads it:
\* fields are <<name, type name, repr of a truthy default or "">>
Entities ==
    { [kind |-> "model", name |-> "Weather", doc |-> "None",
       fields |-> << <<"city", "str", "">>, <<"days", "int", "3">> >>,
       signature |-> "", output |-> ""],
      [kind |-> "callable", name |-> "get_time", doc |-> "Get the time",
       fields |-> <<>>, signature |-> "(zone: str) -> str", output |-> "str"] }

-----------------------------------------------------------------------------
(* Route._get_schema *)

\* one rendered field: <<name, type name>> or <<name, type name, default>>
signature_part(f) == IF f[3] # "" THEN f ELSE <<f[1], f[2]>>

get_schema(item) ==
    IF item.kind = "model"
    THEN [name |-> item.name, description |-> item.doc,
          signature |-> [i \in 1..Len(item.fields) |-> signature_part(item.fields[i])],
          output |-> "absent"]
    ELSE [name |-> item.name, description |-> item.doc,
          signature |-> <<item.signature>>, output |-> item.output]

NoSchema == [name |-> "", description |-> "", signature |-> <<>>, output |-> "absent"]

-----------------------------------------------------------------------------
(* The states no operation of a specification touches *)

NoResult == [kind |-> "none", stage |-> "", err |-> "", route |-> NoRoute]
Raised(stage, err) == [kind |-> "raised", stage |-> stage, err |-> err, route |-> NoRoute]
Returned(stage, r) == [kind |-> "returned", stage |-> stage, err |-> "", route |-> r]

NoCall == [op |-> "none", self |-> 0, name |-> <<>>, route |-> NoRoute, path |-> <<>>,
           before |-> <<>>, raised |-> "", found |-> NoRoute,
           payload |-> <<>>, built |-> 0, file |-> <<>>]

Path_json == <<"r", ".", "j", "s", "o", "n">>
Path_yaml == <<"r", ".", "y", "a", "m", "l">>
Path_yml == <<"r", ".", "y", "m", "l">>
Path_txt == <<"r", ".", "t", "x", "t">>
Paths == {Path_json, Path_yaml, Path_yml, Path_txt}

\* a file: no file, a text, or a YAML document as its node tree
Absent == [kind |-> "absent", text |-> <<>>, doc |-> <<>>]
TextFile(text) == [kind |-> "text", text |-> text, doc |-> <<>>]
YamlFile(node) == [kind |-> "yaml", text |-> <<>>, doc |-> <<node>>]
NotSaved == [by_to_file |-> FALSE, routes |-> <<>>]

SynthIdle ==
    /\ trace = <<>>
    /\ requests = 0
    /\ output = <<>>
    /\ route_config = <<>>
    /\ valid = "unset"
    /\ result = NoResult
    /\ schema = NoSchema

ConfigIdle ==
    /\ heap = <<>>
    /\ routes = <<>>
    /\ held = <<>>
    /\ last = NoCall

FilesIdle ==
    /\ files = [p \in Paths |-> Absent]
    /\ saved = [p \in Paths |-> NotSaved]

-----------------------------------------------------------------------------
(* is_valid on every document: route_config is the argument, valid the outcome *)

InitValid ==
    /\ pc = "call"
    /\ trace = <<>> /\ requests = 0 /\ output = <<>> /\ result = NoResult
    /\ schema = NoSchema
    /\ valid = "unset"
    /\ route_config \in Documents \cup {<<" ">> \o d \o <<"\n">> : d \in Documents}
    /\ ConfigIdle /\ FilesIdle

CallIsValid ==
    /\ pc = "call"
    /\ valid' = is_valid(route_config)
    /\ pc' = "return"
    /\ UNCHANGED <<trace, requests, output, route_config, result, schema,
                   heap, routes, held, files, saved, last>>

NextValid == CallIsValid

SpecValid == InitValid /\ [][NextValid]_vars

-----------------------------------------------------------------------------
(* Route._parse_route_config on every completion text: output is the       *)
(* argument, route_config the text returned                                *)

InitParse ==
    /\ pc = "call"
    /\ trace = <<>> /\ requests = 0 /\ route_config = <<>> /\ result = NoResult
    /\ schema = NoSchema
    /\ valid = "unset"
    /\ output \in Completions
    /\ ConfigIdle /\ FilesIdle

CallParseRouteConfig ==
    /\ pc = "call"
    /\ LET r == parse_route_config(output)
       IN /\ route_config' = r.text
          /\ result' = IF r.ok THEN Returned("", NoRoute) ELSE Raised("", "ValueError")
    /\ pc' = "return"
    /\ UNCHANGED <<trace, requests, output, valid, schema,
                   heap, routes, held, files, saved, last>>

NextParse == CallParseRouteConfig

SpecParse == InitParse /\ [][NextParse]_vars

-----------------------------------------------------------------------------
(* Route.from_dynamic_route: one synthesis attempt.  A failure is recorded *)
(* with the stage that raised it: COMPLETION_RECEIVED for the empty        *)
(* completion, CONFIG_EXTRACTED for _parse_route_config, VALIDATED for     *)
(* is_valid, ROUTE_BUILT for Route.from_dict.                              *)

InitSynth ==
    /\ pc = "start"
    /\ SynthIdle
    /\ ConfigIdle /\ FilesIdle

Step(to) ==
    /\ pc' = to
    /\ trace' = Append(trace, to)

Fail(stage, err) ==
    /\ pc' = "FAILED"
    /\ result' = Raised(stage, err)
    /\ UNCHANGED trace

\* schema = cls._get_schema(item=entity)
GetSchema ==
    /\ pc = "start"
    /\ \E entity \in Entities : schema' = get_schema(entity)
    /\ Step("SCHEMA_EXTRACTED")
    /\ UNCHANGED <<requests, output, route_config, valid, result,
                   heap, routes, held, files, saved, last>>

\* prompt = f"""...{function_schema}"""
BuildPrompt ==
    /\ pc = "SCHEMA_EXTRACTED"
    /\ Step("PROMPT_BUILT")
    /\ UNCHANGED <<requests, output, route_config, valid, result, schema,
                   heap, routes, held, files, saved, last>>

\* completion = await client.chat.completions.create(...); the content is
\* any text, <<>> standing for both None and ""
Complete ==
    /\ pc = "PROMPT_BUILT"
    /\ requests' = requests + 1
    /\ \E text \in Completions : output' = text
    /\ Step("COMPLETION_RECEIVED")
    /\ UNCHANGED <<route_config, valid, result, schema,
                   heap, routes, held, files, saved, last>>

\* if not output: raise ...; route_config = cls._parse_route_config(config=output)
ExtractConfig ==
    /\ pc = "COMPLETION_RECEIVED"
    /\ IF output = <<>>
       THEN Fail("COMPLETION_RECEIVED", "No output generated") /\ UNCHANGED route_config
       ELSE LET r == parse_route_config(output)
            IN IF r.ok
               THEN Step("CONFIG_EXTRACTED") /\ route_config' = r.text /\ UNCHANGED result
               ELSE Fail("CONFIG_EXTRACTED", "ValueError") /\ UNCHANGED route_config
    /\ UNCHANGED <<requests, output, valid, schema,
                   heap, routes, held, files, saved, last>>

\* if is_valid(route_config): ... raise Exception("No config generated")
Validate ==
    /\ pc = "CONFIG_EXTRACTED"
    /\ valid' = is_valid(route_config)
    /\ CASE valid' = "True" -> Step("VALIDATED") /\ UNCHANGED result
         [] valid' = "False" -> Fail("VALIDATED", "No config generated")
         [] valid' = "TypeError" -> Fail("VALIDATED", "TypeError")
    /\ UNCHANGED <<requests, output, route_config, schema,
                   heap, routes, held, files, saved, last>>

\* return Route.from_dict(json.loads(route_config))
BuildRoute ==
    /\ pc = "VALIDATED"
    /\ LET r == from_dict(Loads(route_config).v)
       IN IF r.ok
          THEN Step("ROUTE_BUILT") /\ result' = Returned("ROUTE_BUILT", r.route)
          ELSE Fail("ROUTE_BUILT", r.err)
    /\ UNCHANGED <<requests, output, route_config, valid, schema,
                   heap, routes, held, files, saved, last>>

NextSynth ==
    \/ GetSchema
    \/ BuildPrompt
    \/ Complete
    \/ ExtractConfig
    \/ Validate
    \/ BuildRoute

SpecSynth == InitSynth /\ [][NextSynth]_vars

-----------------------------------------------------------------------------
(* RouteConfig: __init__, add, get, remove.  List 0 is the one list object *)
(* that the default `routes: list[Route] = []` of __init__ evaluates to,   *)
(* once, when the function is defined; list i is the list instance i got   *)
(* from its caller or from remove.                                         *)

Instances == {1, 2}
DefaultList == 0

RouteA == [name |-> Str_a, utterances |-> <<Str_x>>, description |-> PyNone]
RouteA2 == [name |-> Str_a, utterances |-> <<>>, description |-> PyStr(Str_d)]
RouteB == [name |-> Str_b, utterances |-> <<Str_x, Str_y>>, description |-> PyNone]
RouteNull == [name |-> Str_null, utterances |-> <<Str_5>>, description |-> PyStr(Str_d)]

Routes == {RouteA, RouteA2, RouteB}
Names == {Str_a, Str_b, Str_x}

\* self.routes
Contents(self) == heap[routes[self]]

NamesOf(rs) == {rs[k].name : k \in 1..Len(rs)}

\* RouteConfig() keeps the default list, RouteConfig(routes=[]) a list of its own
InitConfig ==
    /\ heap = [l \in {DefaultList} \cup Instances |-> <<>>]
    /\ routes \in [Instances -> {DefaultList} \cup Instances]
    /\ \A i \in Instances : routes[i] \in {DefaultList, i}
    /\ held = [i \in Instances |-> <<>>]
    /\ last = NoCall

Init ==
    /\ pc = "idle"
    /\ SynthIdle
    /\ InitConfig
    /\ FilesIdle

\* the list self.routes.append(route) leaves
appended(rs, route) == Append(rs, route)

\* self.routes.append(route)
Add(self, route) ==
    /\ heap' = [heap EXCEPT ![routes[self]] = appended(@, route)]
    /\ held' = [held EXCEPT ![self] = Append(@, route)]
    /\ last' = [NoCall EXCEPT !.op = "add", !.self = self, !.route = route,
                              !.before = Contents(self)]
    /\ UNCHANGED <<routes, pc, trace, requests, output, route_config, valid, result,
                   schema, files, saved>>

\* the last route of rs with that name, in place of the first
last_match(rs, name) == rs[Max({k \in 1..Len(rs) : rs[k].name = name})]

\* the first route of rs with that name; rs holds one
first_match(rs, name) == rs[Min({k \in 1..Len(rs) : rs[k].name = name})]

\* for route in self.routes: if route.name == name: return route
Get(self, name) ==
    /\ last' = IF name \in NamesOf(Contents(self))
               THEN [NoCall EXCEPT !.op = "get", !.self = self, !.name = name,
                                   !.before = Contents(self),
                                   !.found = first_match(Contents(self), name)]
               ELSE [NoCall EXCEPT !.op = "get", !.self = self, !.name = name,
                                   !.before = Contents(self),
                                   !.raised = "Route not found"]
    /\ UNCHANGED <<heap, routes, held, pc, trace, requests, output, route_config,
                   valid, result, schema, files, saved>>

\* rs with only the first route of that name left out, in place of all
without_first(rs, name) ==
    LET k == Min({m \in 1..Len(rs) : rs[m].name = name})
    IN SubSeq(rs, 1, k - 1) \o SubSeq(rs, k + 1, Len(rs))

\* [route for route in self.routes if route.name != name]
without(rs, name) == SelectSeq(rs, LAMBDA route : route.name # name)

\* remove rebinds self.routes to a new list when the name is held
Remove(self, name) ==
    /\ IF name \notin NamesOf(Contents(self))
       THEN UNCHANGED <<heap, routes>>
       ELSE /\ heap' = [heap EXCEPT ![self] = without(Contents(self), name)]
            /\ routes' = [routes EXCEPT ![self] = self]
    /\ held' = [held EXCEPT ![self] = SelectSeq(@, LAMBDA route : route.name # name)]
    /\ last' = [NoCall EXCEPT !.op = "remove", !.self = self, !.name = name,
                              !.before = Contents(self)]
    /\ UNCHANGED <<pc, trace, requests, output, route_config, valid, result,
                   schema, files, saved>>

\* calls on either of two RouteConfig objects, in any order
Next ==
    \/ \E self \in Instances, route \in Routes :
           Len(Contents(self)) < MaxShared /\ Add(self, route)
    \/ \E self \in Instances, name \in Names : Get(self, name)
    \/ \E self \in Instances, name \in Names : Remove(self, name)

Spec == Init /\ [][Next]_vars

\* calls on one RouteConfig object, the other left alone
NextOne ==
    \/ \E route \in Routes : Len(Contents(1)) < MaxLen /\ Add(1, route)
    \/ \E name \in Names : Get(1, name)
    \/ \E name \in Names : Remove(1, name)

SpecOne == Init /\ [][NextOne]_vars

-----------------------------------------------------------------------------
(* yaml.safe_dump and yaml.safe_load, between Python values and node trees: *)
(* a node is [k, v], k one of "seq", "map", "plain", "quoted"               *)

Str_yes == <<"y", "e", "s">>
Str_no == <<"n", "o">>
Str_on == <<"o", "n">>
Str_off == <<"o", "f", "f">>

\* the type the implicit resolver gives a plain scalar
ResolvePlain(cs) ==
    CASE cs \in {<<>>, Str_null, <<"~">>} -> "None"
      [] cs \in {Str_true, Str_false, Str_yes, Str_no, Str_on, Str_off} -> "bool"
      [] cs # <<>> /\ (\A k \in 1..Len(cs) : cs[k] \in Digits) -> "int"
      [] OTHER -> "str"

Indicators == {"#", ",", "[", "]", "{", "}", "&", "*", "!", "|", ">", "\"", "%", "@"}

\* the emitter writes a text plain only if it reads back as that text
PlainSafe(cs) ==
    /\ cs # <<>>
    /\ cs[1] \notin Whitespace /\ cs[Len(cs)] \notin Whitespace
    /\ \A k \in 1..Len(cs) : cs[k] \notin Indicators \cup {"\n"}

ScalarStyle(cs) ==
    IF ResolvePlain(cs) = "str" /\ PlainSafe(cs) THEN "plain" ELSE "quoted"

Alphabet == <<"a", "b", "c", "d", "e", "f", "g", "h", "i", "j", "k", "l", "m",
              "n", "o", "p", "q", "r", "s", "t", "u", "v", "w", "x", "y", "z">>
Rank(c) == CHOOSE k \in 1..Len(Alphabet) : Alphabet[k] = c

RECURSIVE Less(_, _)
Less(a, b) ==
    IF a = <<>> THEN b # <<>>
    ELSE IF b = <<>> THEN FALSE
    ELSE IF a[1] = b[1] THEN Less(Tail(a), Tail(b))
    ELSE Rank(a[1]) < Rank(b[1])

\* sort_keys=True
SortedByKey(kvs) ==
    LET place(i) == 1 + Cardinality({j \in 1..Len(kvs) : Less(kvs[j][1], kvs[i][1])})
    IN [p \in 1..Len(kvs) |-> kvs[CHOOSE i \in 1..Len(kvs) : place(i) = p]]

RECURSIVE Represent(_)
Represent(x) ==
    CASE x.t = "None" -> [k |-> "plain", v |-> Str_null]
      [] x.t \in {"int", "bool"} -> [k |-> "plain", v |-> x.v]
      [] x.t = "str"  -> [k |-> ScalarStyle(x.v), v |-> x.v]
      [] x.t = "list" -> [k |-> "seq", v |-> [i \in 1..Len(x.v) |-> Represent(x.v[i])]]
      [] x.t = "dict" ->
            [k |-> "map",
             v |-> LET kvs == SortedByKey(x.v)
                   IN [i \in 1..Len(kvs) |->
                          <<Represent(PyStr(kvs[i][1])), Represent(kvs[i][2])>>]]

\* the keys of the mappings here are all str
RECURSIVE Construct(_)
Construct(n) ==
    CASE n.k = "quoted" -> PyStr(n.v)
      [] n.k = "plain" ->
            ( CASE ResolvePlain(n.v) = "None" -> PyNone
                [] ResolvePlain(n.v) = "bool" -> PyBool(n.v)
                [] ResolvePlain(n.v) = "int"  -> PyInt(n.v)
                [] ResolvePlain(n.v) = "str"  -> PyStr(n.v) )
      [] n.k = "seq" -> PyList([i \in 1..Len(n.v) |-> Construct(n.v[i])])
      [] n.k = "map" ->
            PyDict([i \in 1..Len(n.v) |-> <<Construct(n.v[i][1]).v, Construct(n.v[i][2])>>])

-----------------------------------------------------------------------------
(* RouteConfig.to_file and RouteConfig.from_file *)

\* os.path.splitext: the extension starts at the last dot, unless the name
\* starts with it
splitext(path) ==
    LET dots == {k \in 2..Len(path) : path[k] = "."}
    IN IF dots = {} THEN <<>> ELSE SubSeq(path, Max(dots), Len(path))

Ext_json == <<".", "j", "s", "o", "n">>
Ext_yaml == <<".", "y", "a", "m", "l">>
Ext_yml == <<".", "y", "m", "l">>

\* RouteConfig.to_dict
config_to_dict(rs) == PyList([i \in 1..Len(rs) |-> to_dict(rs[i])])

\* open(path, "w") makes the file an empty one before anything is written
ToFile(self, path) ==
    LET ext == splitext(path)
        call == [NoCall EXCEPT !.op = "to_file", !.self = self, !.path = path,
                               !.before = Contents(self), !.file = <<files[path]>>]
    IN /\ CASE ext = Ext_json ->
                  /\ files' = [files EXCEPT
                                  ![path] = TextFile(Dumps(config_to_dict(Contents(self))))]
                  /\ saved' = [saved EXCEPT ![path] = [by_to_file |-> TRUE,
                                                       routes |-> Contents(self)]]
                  /\ last' = call
            [] ext \in {Ext_yaml, Ext_yml} ->
                  /\ files' = [files EXCEPT
                                  ![path] = YamlFile(Represent(config_to_dict(Contents(self))))]
                  /\ saved' = [saved EXCEPT ![path] = [by_to_file |-> TRUE,
                                                       routes |-> Contents(self)]]
                  /\ last' = call
            [] OTHER ->
                  /\ files' = [files EXCEPT ![path] = TextFile(<<>>)]
                  /\ saved' = [saved EXCEPT ![path] = NotSaved]
                  /\ last' = [call EXCEPT !.raised = "ValueError"]
       /\ UNCHANGED <<heap, routes, held, pc, trace, requests, output, route_config,
                      valid, result, schema>>

\* what `for route in routes` yields: the elements of a list, the keys of a
\* dict, the characters of a str
Iterate(x) ==
    CASE x.t = "list" -> x.v
      [] x.t = "dict" -> [i \in 1..Len(x.v) |-> PyStr(x.v[i][1])]
      [] x.t = "str"  -> [i \in 1..Len(x.v) |-> PyStr(<<x.v[i]>>)]

\* [Route.from_dict(route) for route in routes]: [built, raised, routes], built
\* the number of Route objects constructed before it ended
BuildRoutes(x) ==
    LET xs == Iterate(x)
        made == [i \in 1..Len(xs) |-> from_dict(xs[i])]
        bad == {i \in 1..Len(xs) : ~made[i].ok}
    IN IF bad = {}
       THEN [built |-> Len(xs), raised |-> "",
             routes |-> [i \in 1..Len(xs) |-> made[i].route]]
       ELSE [built |-> Min(bad) - 1, raised |-> made[Min(bad)].err, routes |-> <<>>]

\* json.load(f) or yaml.safe_load(f): [ok, v]
LoadFile(ext, file) ==
    IF ext = Ext_json
    THEN LET x == Loads(file.text) IN [ok |-> x.ok, v |-> x.v]
    ELSE [ok |-> TRUE, v |-> Construct(file.doc[1])]

\* the classmethod: the RouteConfig it returns becomes instance 2
FromFile(path) ==
    LET ext == splitext(path)
        call == [NoCall EXCEPT !.op = "from_file", !.self = 2, !.path = path,
                               !.before = Contents(2), !.file = <<files[path]>>]
        raise(e) == /\ last' = [call EXCEPT !.raised = e]
                    /\ UNCHANGED <<heap, routes, held>>
        file == LoadFile(ext, files[path])
        loaded == file.v
        ok == is_valid(Dumps(loaded))
        made == BuildRoutes(loaded)
    IN /\ IF files[path].kind = "absent" THEN raise("FileNotFoundError")
          ELSE IF ext \notin {Ext_json, Ext_yaml, Ext_yml} THEN raise("ValueError")
          ELSE IF ~file.ok THEN raise("JSONDecodeError")
          ELSE IF ok = "TypeError"
          THEN /\ last' = [call EXCEPT !.raised = "TypeError", !.payload = <<loaded>>]
               /\ UNCHANGED <<heap, routes, held>>
          ELSE IF ok = "False"
          THEN /\ last' = [call EXCEPT !.raised = "Invalid config JSON or YAML",
                                       !.payload = <<loaded>>]
               /\ UNCHANGED <<heap, routes, held>>
          ELSE IF made.raised # ""
          THEN /\ last' = [call EXCEPT !.raised = made.raised, !.payload = <<loaded>>,
                                       !.built = made.built]
               /\ UNCHANGED <<heap, routes, held>>
          ELSE /\ last' = [call EXCEPT !.payload = <<loaded>>, !.built = made.built]
               /\ heap' = [heap EXCEPT ![2] = made.routes]
               /\ routes' = [routes EXCEPT ![2] = 2]
               /\ held' = [held EXCEPT ![2] = made.routes]
       /\ UNCHANGED <<files, saved, pc, trace, requests, output, route_config,
                      valid, result, schema>>

FileRoutes == {RouteA, RouteNull}

\* the files a payload lies in before any call
PayloadFiles(x) ==
    [p \in Paths |->
        CASE p = Path_json -> TextFile(Dumps(x))
          [] p = Path_yaml -> YamlFile(Represent(x))
          [] p = Path_yml  -> Absent
          [] p = Path_txt  -> TextFile(Dumps(x))]

\* either a RouteConfig of any routes and no files, or an empty RouteConfig
\* and files that hold any payload
InitFile ==
    /\ pc = "idle"
    /\ SynthIdle
    /\ routes = [i \in Instances |-> i]
    /\ last = NoCall
    /\ saved = [p \in Paths |-> NotSaved]
    /\ \E rs \in SeqsUpTo(FileRoutes, MaxRoutes) :
          /\ heap = [l \in {DefaultList} \cup Instances |-> IF l = 1 THEN rs ELSE <<>>]
          /\ held = [i \in Instances |-> IF i = 1 THEN rs ELSE <<>>]
          /\ \/ files = [p \in Paths |-> Absent]
             \/ /\ rs = <<>>
                /\ \/ \E x \in FilePayloads : files = PayloadFiles(x)
                   \/ \E t \in Unparseable :
                          files = [p \in Paths |->
                                      IF p = Path_json THEN TextFile(t) ELSE Absent]

NextFile ==
    \/ \E path \in Paths : ToFile(1, path)
    \/ \E path \in Paths : FromFile(path)

SpecFile == InitFile /\ [][NextFile]_vars

-----------------------------------------------------------------------------
(* Claims about is_valid (SpecValid) *)

HasRequiredKeys(x) ==
    x.t = "dict" /\ Str_name \in Keys(x) /\ Str_utterances \in Keys(x)

\* a single mapping, or a list of mappings, each with `name` and `utterances`
WellFormedPayload(x) ==
    \/ HasRequiredKeys(x)
    \/ x.t = "list" /\ \A i \in 1..Len(x.v) : HasRequiredKeys(x.v[i])

WellFormedText(text) == Loads(text).ok /\ WellFormedPayload(Loads(text).v)

\* C2: is_valid returns a boolean for every text and never raises: valid
\* exactly for the texts that parse to a mapping with both required keys or to
\* a list of such mappings, invalid for every other text.
C2_IsValidDecidesWellFormed ==
    pc = "return" =>
        valid = IF WellFormedText(route_config) THEN "True" ELSE "False"

-----------------------------------------------------------------------------
(* Claims about Route._parse_route_config (SpecParse) *)

\* t is s without its leading and trailing whitespace
IsStripOf(t, s) ==
    \E a \in 0..Len(s) : \E b \in a..Len(s) :
        /\ t = SubSeq(s, a + 1, b)
        /\ \A k \in 1..a : s[k] \in Whitespace
        /\ \A k \in (b + 1)..Len(s) : s[k] \in Whitespace
        /\ t # <<>> => t[1] \notin Whitespace /\ t[Len(t)] \notin Whitespace

OpensIn(s) == {i \in 1..Len(s) : MatchAt(s, i, OpenTag)}
ClosesAfter(s, i) == {j \in (i + Len(OpenTag))..Len(s) : MatchAt(s, j, CloseTag)}
HasTagPair(s) == OpensIn(s) # {} /\ ClosesAfter(s, Min(OpensIn(s))) # {}

\* C3: the text returned is the trimmed text between the first <config> and
\* the first </config> after it, and ValueError is raised when there is no such
\* pair; a tag-free s wrapped in the tags comes back as s.strip(); whatever
\* follows the first pair does not change what is returned.
C3_ExtractsFirstTagPair ==
    pc = "return" =>
        /\ ~HasTagPair(output) => result.kind = "raised" /\ result.err = "ValueError"
        /\ HasTagPair(output) =>
            LET i == Min(OpensIn(output))
                j == Min(ClosesAfter(output, i))
            IN /\ result.kind = "returned"
               /\ IsStripOf(route_config, SubSeq(output, i + Len(OpenTag), j - 1))
               /\ \A n \in (j + Len(CloseTag) - 1)..Len(output) :
                      LET r == parse_route_config(SubSeq(output, 1, n))
                      IN r.ok /\ r.text = route_config
        /\ LET s == SubSeq(output, Len(OpenTag) + 1, Len(output) - Len(CloseTag))
           IN ( /\ Len(output) >= Len(OpenTag) + Len(CloseTag)
                /\ output = OpenTag \o s \o CloseTag
                /\ ~Contains(s, OpenTag) /\ ~Contains(s, CloseTag) )
              => result.kind = "returned" /\ IsStripOf(route_config, s)

\* a text was extracted from a completion that goes on after the first pair
\* with a second closing tag
C3_Witness ==
    /\ pc = "return"
    /\ result.kind = "returned"
    /\ route_config = Str_5
    /\ HasTagPair(output)
    /\ Cardinality(ClosesAfter(output, Min(OpensIn(output)))) >= 2

-----------------------------------------------------------------------------
(* Claims about the synthesis attempt (SpecSynth) *)

StateOrder == <<"SCHEMA_EXTRACTED", "PROMPT_BUILT", "COMPLETION_RECEIVED",
                "CONFIG_EXTRACTED", "VALIDATED", "ROUTE_BUILT">>

SpecifiedFailures ==
    { <<"COMPLETION_RECEIVED", "No output generated">>,
      <<"CONFIG_EXTRACTED", "ValueError">>,
      <<"VALIDATED", "No config generated">> }

\* C4: an attempt passes through the six states in order, none skipped or
\* revisited, sends exactly one completion request, and ends in ROUTE_BUILT or
\* in a failure raised for an empty completion, for missing tags or by failed
\* validation; after a failure nothing further happens.
C4_AttemptFollowsStateMachine ==
    /\ Len(trace) <= Len(StateOrder)
    /\ trace = SubSeq(StateOrder, 1, Len(trace))
    /\ requests = IF Len(trace) >= 3 THEN 1 ELSE 0
    /\ pc # "FAILED" => pc = IF trace = <<>> THEN "start" ELSE trace[Len(trace)]
    /\ pc = "FAILED" =>
        /\ <<result.stage, result.err>> \in SpecifiedFailures
        /\ ~ENABLED NextSynth

\* C5: once is_valid has accepted a single mapping or a list of mappings with
\* `name` and `utterances`, the attempt ends in ROUTE_BUILT with a Route made
\* of each mapping's name, utterances and description (None when absent).
C5_ValidatedPayloadIsBuilt ==
    LET payload == Loads(route_config).v
    IN ( /\ pc \in {"ROUTE_BUILT", "FAILED"}
         /\ valid = "True"
         /\ WellFormedPayload(payload) )
       => /\ pc = "ROUTE_BUILT"
          /\ result.kind = "returned"
          /\ payload.t = "dict" =>
                /\ PyStr(result.route.name) = Lookup(payload, Str_name)
                /\ result.route.description =
                      IF Str_description \in Keys(payload)
                      THEN Lookup(payload, Str_description) ELSE PyNone

-----------------------------------------------------------------------------
(* Claims about add, get and remove *)

\* c is b with some elements left out, the rest in their order
IsSubsequence(c, b) ==
    \E f \in [1..Len(c) -> 1..Len(b)] :
        /\ \A k \in 1..Len(c) : c[k] = b[f[k]]
        /\ \A k \in 1..Len(c) : \A m \in 1..Len(c) : k < m => f[k] < f[m]

Matching(rs, name) == {k \in 1..Len(rs) : rs[k].name = name}

\* C8: remove(name) never raises; afterwards no held route has that name and
\* the routes with other names are all still held, unchanged and in their
\* order; with no route of that name held, the collection is as it was.
C8_RemoveDropsAllMatches ==
    last.op = "remove" =>
        /\ last.raised = ""
        /\ last.name \notin NamesOf(Contents(last.self))
        /\ IsSubsequence(Contents(last.self), last.before)
        /\ Len(Contents(last.self)) =
               Len(last.before) - Cardinality(Matching(last.before, last.name))
        /\ Matching(last.before, last.name) = {} => Contents(last.self) = last.before
        /\ Contents(last.self) = held[last.self]

\* remove took two routes of one name out from around a route that stays
C8_Witness ==
    /\ last.op = "remove"
    /\ Cardinality(Matching(last.before, last.name)) = 2
    /\ Len(Contents(last.self)) = 1

\* C9: add appends at the end whatever names are held (one more route, the
\* others untouched); get returns the earliest-added route of that name that
\* was not removed, raises when none is held, and changes nothing.
C9_AddAppendsGetFindsFirst ==
    /\ last.op = "add" =>
        /\ Len(Contents(last.self)) = Len(last.before) + 1
        /\ SubSeq(Contents(last.self), 1, Len(last.before)) = last.before
        /\ Contents(last.self)[Len(Contents(last.self))] = last.route
    /\ last.op = "get" =>
        /\ Contents(last.self) = last.before
        /\ Matching(held[last.self], last.name) = {} <=> last.raised = "Route not found"
        /\ Matching(held[last.self], last.name) # {} =>
            /\ last.raised = ""
            /\ last.found = held[last.self][Min(Matching(held[last.self], last.name))]
    /\ Contents(1) = held[1]

\* get found the older of two held routes of one name
C9_Witness ==
    /\ last.op = "get"
    /\ last.raised = ""
    /\ Cardinality(Matching(last.before, last.name)) = 2
    /\ last.before[1].name # last.name
    /\ last.found # last.before[Len(last.before)]

\* C10: each RouteConfig holds exactly the routes added to it and not since
\* removed from it, whatever is done to the other one.
C10_InstancesOwnTheirRoutes ==
    \A self \in Instances : Contents(self) = held[self]

-----------------------------------------------------------------------------
(* Claims about from_file and to_file (SpecFile) *)

Supported == {Ext_json, Ext_yaml, Ext_yml}

\* C1: a payload is accepted only if it is a mapping or a list of mappings,
\* each with `name` and `utterances`, and a payload that is rejected is
\* rejected before a Route is constructed from any of its elements.
C1_RejectedBeforeAnyRoute ==
    (last.op = "from_file" /\ last.payload # <<>>) =>
        /\ last.raised = "" => WellFormedPayload(last.payload[1])
        /\ last.raised # "" => last.built = 0

\* C6: from_file of a path that to_file wrote as .json, .yaml or .yml returns
\* a RouteConfig of the same routes in the same order, each with the same
\* name, utterances and description.
C6_SaveLoadRoundTrip ==
    (last.op = "from_file" /\ saved[last.path].by_to_file) =>
        /\ last.raised = ""
        /\ Len(Contents(2)) = Len(saved[last.path].routes)
        /\ \A k \in 1..Len(Contents(2)) :
              /\ Contents(2)[k].name = saved[last.path].routes[k].name
              /\ Contents(2)[k].utterances = saved[last.path].routes[k].utterances
              /\ Contents(2)[k].description = saved[last.path].routes[k].description

\* two routes of one name, "null", each with the utterance "5" and a
\* description, came back from a YAML file
C6_Witness ==
    /\ last.op = "from_file"
    /\ last.path = Path_yaml
    /\ saved[last.path].by_to_file
    /\ Len(Contents(2)) = 2
    /\ Contents(2)[1] = RouteNull
    /\ Contents(2)[2] = RouteNull

\* C7: with any other extension from_file and to_file raise the unsupported
\* file type error and change nothing: not the file, not the routes.
C7_UnsupportedExtensionChangesNothing ==
    ( /\ last.op \in {"to_file", "from_file"}
      /\ splitext(last.path) \notin Supported
      /\ last.op = "from_file" => last.file[1].kind # "absent" ) =>
        /\ last.raised = "ValueError"
        /\ files[last.path] = last.file[1]
        /\ Contents(last.self) = last.before

====
